---- MODULE Spec2Model ----
(***************************************************************************)
(* Replay scheduling of src/data_simulator.py (class DataSimulator):       *)
(* the indexer _get_sorted_files, the cursor of _get_next_batch, the       *)
(* per-file loop of copy_batch and the drivers run_once / run_continuous.  *)
(***************************************************************************)
EXTENDS Integers, Sequences, FiniteSets, TLC

\* ------------------------------------------------------------------ bounds
\* Largest number of files found in the source directory.
MaxFiles == 4
\* Largest configured number of shops (--shops).
MaxShops == 3
\* Largest number of _get_next_batch calls followed in one run.
MaxCalls == 5
\* Largest number of days the generator is asked for (--days).
MaxDays == 2

\* ------------------------------------------------------- file names as text
\* A file name is the sequence of its pieces: "-" and ".csv" are pieces of
\* their own, so that splitting and suffix removal are computed, not assumed.
ShopIdTexts == {"1", "2"}
DateTexts == {"20210101", "20210102"}
HourTexts == {"00", "01"}

FileName(id, d, h) == <<"Shop", "-", id, "-", d, "-", h, ".csv">>

\* Decimal digits, and the formats of the generator's file name template:
\* {hour:02d}, {shop_id} and strftime('%Y%m%d') of start_date + day days for
\* the default start date 2021-01-01 (days within January).
Digits == <<"0", "1", "2", "3", "4", "5", "6", "7", "8", "9">>
TwoDigits(n) == Digits[(n \div 10) + 1] \o Digits[(n % 10) + 1]
HourText(h) == TwoDigits(h)
ShopText(k) == IF k < 10 THEN Digits[k + 1] ELSE TwoDigits(k)
DateText(d) == "202101" \o TwoDigits(d + 1)

\* The names the generator's template produces over the small alphabets.
SourceNames == {FileName(i, d, h) : i \in ShopIdTexts, d \in DateTexts, h \in HourTexts}

\* filename.replace('.csv', ''): every ".csv" piece is removed.
StripCsv(fn) == SelectSeq(fn, LAMBDA t : t # ".csv")

\* str.split('-'): the segments between "-" pieces; an empty segment is <<>>.
RECURSIVE SplitDash(_, _, _)
SplitDash(s, cur, acc) ==
    IF s = <<>> THEN Append(acc, cur)
    ELSE IF Head(s) = "-" THEN SplitDash(Tail(s), <<>>, Append(acc, cur))
    ELSE SplitDash(Tail(s), Append(cur, Head(s)), acc)

Parts(fn) == SplitDash(StripCsv(fn), <<>>, <<>>)

\* int(parts[1]) over the texts of the model; anything else is a ValueError.
IntTexts == {"0", "1", "2", "3", "4", "5", "01"}
IntOf(t) ==
    CASE t = "0" -> 0 [] t = "1" -> 1 [] t = "2" -> 2 [] t = "3" -> 3
      [] t = "4" -> 4 [] t = "5" -> 5 [] t = "01" -> 1 [] OTHER -> -1
IsIntSeg(seg) == Len(seg) = 1 /\ seg[1] \in IntTexts

\* datetime.strptime(date-hour, "%Y%m%d-%H") over the texts of the model.
DayOf(t) ==
    CASE t = "20210101" -> 0 [] t = "20210102" -> 1 [] t = "20210103" -> 2
      [] t = "20210104" -> 3 [] OTHER -> -1
HourOf(t) ==
    CASE t = "00" -> 0 [] t = "01" -> 1 [] t = "02" -> 2 [] t = "03" -> 3
      [] t = "04" -> 4 [] t = "05" -> 5 [] t = "06" -> 6 [] t = "07" -> 7
      [] t = "08" -> 8 [] t = "09" -> 9 [] t = "10" -> 10 [] t = "11" -> 11
      [] t = "12" -> 12 [] t = "13" -> 13 [] t = "14" -> 14 [] t = "15" -> 15
      [] t = "16" -> 16 [] t = "17" -> 17 [] t = "18" -> 18 [] t = "19" -> 19
      [] t = "20" -> 20 [] t = "21" -> 21 [] t = "22" -> 22 [] t = "23" -> 23
      [] t = "1" -> 1 [] OTHER -> -1
IsDateSeg(seg) == Len(seg) = 1 /\ DayOf(seg[1]) >= 0
IsHourSeg(seg) == Len(seg) = 1 /\ HourOf(seg[1]) >= 0
HoursPerDay == 24
Timestamp(dseg, hseg) == DayOf(dseg[1]) * HoursPerDay + HourOf(hseg[1])

\* The try block of the scan loop: parts[1], parts[2], parts[3] must exist
\* (IndexError) and convert (ValueError); further segments are not looked at.
Parses(fn) ==
    LET p == Parts(fn) IN
    /\ Len(p) >= 4
    /\ IsIntSeg(p[2])
    /\ IsDateSeg(p[3])
    /\ IsHourSeg(p[4])

\* The tuple (timestamp, shop_id, filepath) appended for a name that parses.
Entry(fn) ==
    LET p == Parts(fn) IN
    [ts |-> Timestamp(p[3], p[4]), sid |-> IntOf(p[2][1]), fp |-> fn]

\* Mutant: the sort key is the timestamp alone.
KeyLeq_TimestampOnly(a, b) == a.ts <= b.ts

\* The sort key (x[0], x[1]) compared as Python compares tuples.
KeyLeq(a, b) == a.ts < b.ts \/ (a.ts = b.ts /\ a.sid <= b.sid)

\* glob returns the matching files in arbitrary order: entries of equal key
\* may come in any order.
RECURSIVE Perms(_)
Perms(S) ==
    IF S = {} THEN {<<>>}
    ELSE UNION { { <<m>> \o s : s \in Perms(S \ {m}) } : m \in S }

\* list.sort is stable and glob's order is arbitrary: every ordering of the
\* entries that is ascending in the key is a possible result. The entries are
\* split into those of the smaller keys and the rest (entries of equal key
\* stay together), each part ordered on its own.
RECURSIVE SortedSeqs(_)
SortedSeqs(S) ==
    IF \A x, y \in S : KeyLeq(x, y) THEN Perms(S)
    ELSE LET half == Cardinality(S) \div 2
             below == {x \in S : Cardinality({y \in S : ~KeyLeq(x, y)}) < half}
             low == IF below = S THEN {x \in S : \A y \in S : KeyLeq(x, y)} ELSE below
         IN  {a \o b : a \in SortedSeqs(low), b \in SortedSeqs(S \ low)}

\* glob 'Shop-*-*.csv': the name starts with Shop-, holds a further "-" and
\* ends in .csv.
GlobMatch(fn) ==
    /\ Len(fn) >= 4
    /\ fn[1] = "Shop"
    /\ fn[2] = "-"
    /\ fn[Len(fn)] = ".csv"
    /\ \E i \in 3..(Len(fn) - 1) : fn[i] = "-"

\* _get_sorted_files: the (timestamp, filepath) pairs in sorted order.
DropSid(s) == [i \in 1..Len(s) |-> [ts |-> s[i].ts, fp |-> s[i].fp]]
GetSortedFiles(files) ==
    { DropSid(s) : s \in SortedSeqs({Entry(f) : f \in {g \in files : GlobMatch(g) /\ Parses(g)}}) }

\* What a source file holds: the orders of its shop and hour, an opaque
\* payload of one piece that the copy carries over unchanged.
SourceData(fn) == <<[shop |-> Entry(fn).sid, ts |-> Entry(fn).ts]>>

\* Mutant: the destination file is opened for appending, so a second copy
\* adds the content behind the first.
Store_Appends(d, fn) ==
    [g \in DOMAIN d \cup {fn} |->
        IF g # fn THEN d[g]
        ELSE IF fn \in DOMAIN d THEN d[fn] \o SourceData(fn) ELSE SourceData(fn)]

\* shutil.copy2(source_path, dest_path) with dest_path = dest_dir/basename:
\* the entry of that name is created or overwritten with the source content.
Store(d, fn) == [g \in DOMAIN d \cup {fn} |-> IF g = fn THEN SourceData(fn) ELSE d[g]]

\* ------------------------------------------------------------------ state
VARIABLES
    all_files,        \* self.all_files: the corpus, fixed at construction
    num_shops,        \* self.num_shops (N)
    interval_seconds, \* self.interval_seconds
    mode,             \* "once" (--once) or "continuous"
    current_index,    \* self.current_index: the replay cursor
    pc,               \* where the driver is
    batch_files,      \* copy_batch's batch_files
    start_idx,        \* _get_next_batch's start_idx of the last call
    pos,              \* number of loop iterations of copy_batch done
    success_count,    \* copy_batch's success_count
    result,           \* what the last copy_batch returned
    dest,             \* file names present in dest_dir
    attempts,         \* transfers attempted in the current batch, in order
    calls,            \* number of _get_next_batch calls so far
    source_files,     \* the names in source_dir when the indexer scanned it
    dest_data,        \* dest_dir: the content stored under each file name
    waits,            \* number of interval waits that have elapsed
    attempted_at,     \* per corpus position: the call of its last attempt
    days,             \* DataGenerator.days (--days)
    day,              \* generate_all's loop variable day
    hour,             \* generate_all's loop variable hour
    shop_id,          \* generate_all's loop variable shop_id
    handler,          \* where get_data is ("idle": no request in progress)
    table,            \* get_data's parameter table
    conn,             \* get_data's conn: "none", "open" or "closed"
    query,            \* get_data's query ("" before it is built)
    response,         \* status of the last response (0: none yet)
    queried           \* the table names pd.read_sql has been run on

vars == <<all_files, num_shops, interval_seconds, mode, current_index, pc,
          batch_files, start_idx, pos, success_count, result, dest, attempts, calls,
          source_files, dest_data, waits, attempted_at, days, day, hour, shop_id,
          handler, table, conn, query, response, queried>>

api == <<handler, table, conn, query, response, queried>>

config == <<all_files, num_shops, interval_seconds, mode, source_files,
            days, day, hour, shop_id, api>>

\* time.sleep raises ValueError for a negative length.
Intervals == {-1, 3600}

\* --------------------------------------------------------------- scheduler
\* all_files[a:b] for 0 <= a <= b, as Python slices (clamped to the length).
Slice(s, a, b) ==
    LET hi == IF b < Len(s) THEN b ELSE Len(s) IN
    IF a >= hi THEN <<>> ELSE SubSeq(s, a + 1, hi)

\* Mutant: the wrap test written with >= (wraps one batch early).
NextRange_WrapEarly(cur, n, m) ==
    IF cur + n >= m THEN [start |-> 0, end |-> n]
    ELSE [start |-> cur, end |-> cur + n]

\* Mutant: the files left over at the end of the corpus go out as a last,
\* shorter batch before the cursor wraps.
NextRange_TailBatch(cur, n, m) ==
    IF cur + n > m
    THEN IF cur < m THEN [start |-> cur, end |-> m] ELSE [start |-> 0, end |-> n]
    ELSE [start |-> cur, end |-> cur + n]

\* Mutant: no wraparound, the slice simply runs off the end of the corpus.
NextRange_NoWrap(cur, n, m) == [start |-> cur, end |-> cur + n]

\* start_idx and end_idx of _get_next_batch for cursor cur.
NextRange(cur, n, m) ==
    IF cur + n > m THEN [start |-> 0, end |-> n]
    ELSE [start |-> cur, end |-> cur + n]

FilePaths(s) == [i \in 1..Len(s) |-> s[i].fp]

\* What a source directory may hold besides the generator's files: names
\* off the template Shop-k-YYYYMMDD-hh.csv in one way each, and a second
\* spelling of shop 1.
OddNames ==
    { FileName("01", "20210101", "00"),
      FileName("abc", "20210101", "00"),
      FileName("1", "20211301", "00"),
      FileName("1", "20210101", "24"),
      <<"Shop", "-", "1", "-", "20210101", ".csv">>,
      <<"Shop", "-", "1", "-", "20210101", "-", "00", "-", "x", ".csv">>,
      <<"Store", "-", "1", "-", "20210101", "-", "00", ".csv">> }
IndexerNames ==
    { FileName("1", "20210101", "00"), FileName("2", "20210101", "00"),
      FileName("1", "20210101", "01") } \cup OddNames

\* ------------------------------------------------------------------- init
\* The fields and the destination directory right after __init__.
Started ==
    /\ current_index = 0
    /\ pc = "tick"
    /\ batch_files = <<>>
    /\ start_idx = 0
    /\ pos = 0
    /\ success_count = 0
    /\ result = "none"
    /\ dest = {}
    /\ attempts = <<>>
    /\ calls = 0
    /\ dest_data = [g \in {} |-> <<>>]
    /\ waits = 0
    /\ attempted_at = [p \in 1..Len(all_files) |-> 0]

\* The source directory is there already: no generator run is followed.
NoGenerator == days = 0 /\ day = 0 /\ hour = 0 /\ shop_id = 1

\* The serving endpoint has received no request.
NoRequest ==
    /\ handler = "idle"
    /\ table = ""
    /\ conn = "none"
    /\ query = ""
    /\ response = 0
    /\ queried = {}

Init ==
    /\ NoGenerator
    /\ NoRequest
    /\ source_files \in SUBSET SourceNames
    /\ Cardinality(source_files) <= MaxFiles
    /\ all_files \in GetSortedFiles(source_files)
    /\ num_shops \in 1..MaxShops
    /\ interval_seconds \in Intervals
    /\ mode \in {"once", "continuous"}
    /\ Started

\* Mutant: the loop goes straight to the next batch, the wait is left out.
AfterCopyBatch_NoWait == IF mode = "once" THEN "done" ELSE "tick"

\* Mutant: run_continuous looks at what copy_batch returned and leaves the
\* loop after a batch that was not copied completely.
AfterCopyBatch_StopOnFailure ==
    IF mode = "once" \/ success_count < Len(batch_files) THEN "done" ELSE "wait"

\* Where the driver goes when copy_batch returns: run_once returns too,
\* run_continuous ignores the value and goes on to the wait.
AfterCopyBatch == IF mode = "once" THEN "done" ELSE "wait"

\* Mutant: an empty batch raises instead of returning False.
EmptyBatchExit_Raises == IF mode = "once" THEN "done" ELSE "fatal"

\* "No files to copy!": copy_batch returns False to its caller.
EmptyBatchExit == AfterCopyBatch

\* Mutant: a batch that was not copied completely is taken again (the cursor
\* is moved back before the next batch is cut).
BeginBatch_RetryFailed ==
    /\ pc = "tick"
    /\ calls < MaxCalls
    /\ LET back == IF result = "failed" THEN start_idx ELSE current_index
           r == NextRange(back, num_shops, Len(all_files))
           b == FilePaths(Slice(all_files, r.start, r.end))
       IN  /\ start_idx' = r.start
           /\ current_index' = r.end
           /\ batch_files' = b
           /\ IF b = <<>>
              THEN /\ result' = "failed"
                   /\ pc' = EmptyBatchExit
              ELSE /\ result' = "none"
                   /\ pc' = "copy"
    /\ calls' = calls + 1
    /\ pos' = 0
    /\ success_count' = 0
    /\ attempts' = <<>>
    /\ UNCHANGED <<config, dest, dest_data, waits, attempted_at>>

\* Mutant: the scheduler is asked twice (a second _get_next_batch call, say
\* for the log line), so one batch is skipped.
BeginBatch_TwoSchedulerCalls ==
    /\ pc = "tick"
    /\ calls < MaxCalls
    /\ LET r1 == NextRange(current_index, num_shops, Len(all_files))
           r == NextRange(r1.end, num_shops, Len(all_files))
           b == FilePaths(Slice(all_files, r.start, r.end))
       IN  /\ start_idx' = r.start
           /\ current_index' = r.end
           /\ batch_files' = b
           /\ IF b = <<>>
              THEN /\ result' = "failed"
                   /\ pc' = EmptyBatchExit
              ELSE /\ result' = "none"
                   /\ pc' = "copy"
    /\ calls' = calls + 2
    /\ pos' = 0
    /\ success_count' = 0
    /\ attempts' = <<>>
    /\ UNCHANGED <<config, dest, dest_data, waits, attempted_at>>

\* copy_batch up to its loop: _get_next_batch, then the empty-batch return.
BeginBatch ==
    /\ pc = "tick"
    /\ calls < MaxCalls
    /\ LET r == NextRange(current_index, num_shops, Len(all_files))
           b == FilePaths(Slice(all_files, r.start, r.end))
       IN  /\ start_idx' = r.start
           /\ current_index' = r.end
           /\ batch_files' = b
           /\ IF b = <<>>
              THEN /\ result' = "failed"
                   /\ pc' = EmptyBatchExit
              ELSE /\ result' = "none"
                   /\ pc' = "copy"
    /\ calls' = calls + 1
    /\ pos' = 0
    /\ success_count' = 0
    /\ attempts' = <<>>
    /\ UNCHANGED <<config, dest, dest_data, waits, attempted_at>>

\* Mutant: the first failed transfer ends the loop (no per-file handler).
CopyFile_AbortOnFailure ==
    /\ pc = "copy"
    /\ pos < Len(batch_files)
    /\ \E ok \in BOOLEAN :
          /\ attempts' = Append(attempts, [fp |-> batch_files[pos + 1], ok |-> ok])
          /\ success_count' = IF ok THEN success_count + 1 ELSE success_count
          /\ dest' = IF ok THEN dest \cup {batch_files[pos + 1]} ELSE dest
          /\ dest_data' = IF ok THEN Store(dest_data, batch_files[pos + 1]) ELSE dest_data
          /\ pos' = IF ok THEN pos + 1 ELSE Len(batch_files)
    /\ attempted_at' = [attempted_at EXCEPT ![start_idx + pos + 1] = calls]
    /\ UNCHANGED <<config, current_index, pc, batch_files, start_idx, result, calls, waits>>

\* Mutant: a failed transfer is tried again at once (the loop does not move
\* on until the copy has succeeded).
CopyFile_RetryInPlace ==
    /\ pc = "copy"
    /\ pos < Len(batch_files)
    /\ \E ok \in BOOLEAN :
          /\ attempts' = Append(attempts, [fp |-> batch_files[pos + 1], ok |-> ok])
          /\ success_count' = IF ok THEN success_count + 1 ELSE success_count
          /\ dest' = IF ok THEN dest \cup {batch_files[pos + 1]} ELSE dest
          /\ dest_data' = IF ok THEN Store(dest_data, batch_files[pos + 1]) ELSE dest_data
          /\ pos' = IF ok THEN pos + 1 ELSE pos
    /\ attempted_at' = [attempted_at EXCEPT ![start_idx + pos + 1] = calls]
    /\ UNCHANGED <<config, current_index, pc, batch_files, start_idx, result, calls, waits>>

\* Mutant: a failed transfer moves the cursor back to the failed file, so
\* that the next batch starts with it.
CopyFile_RewindOnFailure ==
    /\ pc = "copy"
    /\ pos < Len(batch_files)
    /\ \E ok \in BOOLEAN :
          /\ attempts' = Append(attempts, [fp |-> batch_files[pos + 1], ok |-> ok])
          /\ success_count' = IF ok THEN success_count + 1 ELSE success_count
          /\ dest' = IF ok THEN dest \cup {batch_files[pos + 1]} ELSE dest
          /\ dest_data' = IF ok THEN Store(dest_data, batch_files[pos + 1]) ELSE dest_data
          /\ current_index' = IF ok THEN current_index ELSE start_idx + pos
    /\ pos' = pos + 1
    /\ attempted_at' = [attempted_at EXCEPT ![start_idx + pos + 1] = calls]
    /\ UNCHANGED <<config, pc, batch_files, start_idx, result, calls, waits>>

\* One iteration of the for loop: shutil.copy2 succeeds or raises.
CopyFile ==
    /\ pc = "copy"
    /\ pos < Len(batch_files)
    /\ \E ok \in BOOLEAN :
          /\ attempts' = Append(attempts, [fp |-> batch_files[pos + 1], ok |-> ok])
          /\ success_count' = IF ok THEN success_count + 1 ELSE success_count
          /\ dest' = IF ok THEN dest \cup {batch_files[pos + 1]} ELSE dest
          /\ dest_data' = IF ok THEN Store(dest_data, batch_files[pos + 1]) ELSE dest_data
    /\ pos' = pos + 1
    /\ attempted_at' = [attempted_at EXCEPT ![start_idx + pos + 1] = calls]
    /\ UNCHANGED <<config, current_index, pc, batch_files, start_idx, result, calls, waits>>

\* Mutant: any copied file makes the batch a success.
BatchResult_AnyCopied(succeeded, total) == IF succeeded > 0 THEN "ok" ELSE "failed"

\* return success_count == len(batch_files)
BatchResult(succeeded, total) == IF succeeded = total THEN "ok" ELSE "failed"

\* Mutant: a batch of which nothing was copied raises out of copy_batch.
EndBatch_RaiseWhenNoneCopied ==
    /\ pc = "copy"
    /\ pos = Len(batch_files)
    /\ result' = BatchResult(success_count, Len(batch_files))
    /\ pc' = IF success_count = 0 /\ mode = "continuous" THEN "fatal" ELSE AfterCopyBatch
    /\ UNCHANGED <<config, current_index, batch_files, start_idx, pos, success_count,
                   dest, attempts, calls, dest_data, waits, attempted_at>>

\* The loop is exhausted: copy_batch returns to its caller.
EndBatch ==
    /\ pc = "copy"
    /\ pos = Len(batch_files)
    /\ result' = BatchResult(success_count, Len(batch_files))
    /\ pc' = AfterCopyBatch
    /\ UNCHANGED <<config, current_index, batch_files, start_idx, pos, success_count,
                   dest, attempts, calls, dest_data, waits, attempted_at>>

\* time.sleep(interval_seconds), then the next iteration of while True; the
\* ValueError of a negative length is caught by except Exception and re-raised.
Sleep ==
    /\ pc = "wait"
    /\ pc' = IF interval_seconds < 0 THEN "fatal" ELSE "tick"
    /\ waits' = IF interval_seconds < 0 THEN waits ELSE waits + 1
    /\ UNCHANGED <<config, current_index, batch_files, start_idx, pos, success_count,
                   result, dest, attempts, calls, dest_data, attempted_at>>

\* Mutant: the interrupt is held back until the batch in progress is through.
Interrupt_AfterBatch ==
    /\ pc \in {"tick", "copy", "wait"}
    /\ pc' = IF mode = "continuous" THEN "stopped" ELSE "interrupted"
    /\ LET rest == IF pc = "copy" THEN SubSeq(batch_files, pos + 1, Len(batch_files)) ELSE <<>>
       IN  /\ attempts' = attempts \o [i \in 1..Len(rest) |-> [fp |-> rest[i], ok |-> TRUE]]
           /\ dest' = dest \cup {rest[i] : i \in 1..Len(rest)}
           /\ success_count' = success_count + Len(rest)
           /\ pos' = pos + Len(rest)
           /\ dest_data' = [g \in DOMAIN dest_data \cup {rest[i] : i \in 1..Len(rest)} |->
                                IF g \in DOMAIN dest_data THEN dest_data[g] ELSE SourceData(g)]
    /\ UNCHANGED <<config, current_index, batch_files, start_idx, result, calls,
                   waits, attempted_at>>

\* Ctrl+C: KeyboardInterrupt is raised wherever the main thread is. It is no
\* Exception, so the handler inside copy_batch's loop lets it pass;
\* run_continuous catches it around the whole loop, run_once does not.
\* The steps of the model are whole transfers: an interrupt that lands inside
\* shutil.copy2 is the interrupt before that transfer as far as attempts and
\* success_count go (what it leaves of the destination file is not modelled).
Interrupt ==
    /\ pc \in {"tick", "copy", "wait"}
    /\ pc' = IF mode = "continuous" THEN "stopped" ELSE "interrupted"
    /\ UNCHANGED <<config, current_index, batch_files, start_idx, pos, success_count,
                   result, dest, attempts, calls, dest_data, waits, attempted_at>>

\* ---------------------------------------------------------------- shorthands
M == Len(all_files)
N == num_shops
\* floor(M/N): the number of complete ticks of one cycle.
Ticks == M \div N
\* Corpus positions [a, a+N) are exactly what batch_files holds.
BatchIsSlice(a) ==
    /\ Len(batch_files) = N
    /\ \A i \in 1..N : batch_files[i] = all_files[a + i].fp
\* The timestamp a file name carries.
TsOf(fn) == Entry(fn).ts
\* copy_batch has returned for the current batch.
Returned == result # "none"

Next == BeginBatch \/ CopyFile \/ EndBatch \/ Sleep \/ Interrupt

Spec == Init /\ [][Next]_vars

\* The program started with --once on a source directory that also holds
\* names off the template; run_once never reaches the wait.
InitIndexer ==
    /\ NoGenerator
    /\ NoRequest
    /\ source_files \in SUBSET IndexerNames
    /\ Cardinality(source_files) <= MaxFiles
    /\ all_files \in GetSortedFiles(source_files)
    /\ num_shops \in 1..MaxShops
    /\ interval_seconds \in {i \in Intervals : i >= 0}
    /\ mode = "once"
    /\ Started

NextOnce == BeginBatch \/ CopyFile \/ EndBatch \/ Interrupt

SpecIndexer == InitIndexer /\ [][NextOnce]_vars

\* The while True loop followed without an end: the same steps as BeginBatch
\* and Sleep, the bookkeeping of calls and waits (no field of the program)
\* left alone so that the loop can be followed for ever.
BeginBatchUncounted ==
    /\ pc = "tick"
    /\ LET r == NextRange(current_index, num_shops, Len(all_files))
           b == FilePaths(Slice(all_files, r.start, r.end))
       IN  /\ start_idx' = r.start
           /\ current_index' = r.end
           /\ batch_files' = b
           /\ IF b = <<>>
              THEN /\ result' = "failed"
                   /\ pc' = EmptyBatchExit
              ELSE /\ result' = "none"
                   /\ pc' = "copy"
    /\ pos' = 0
    /\ success_count' = 0
    /\ attempts' = <<>>
    /\ UNCHANGED <<config, dest, dest_data, waits, attempted_at, calls>>

SleepUncounted ==
    /\ pc = "wait"
    /\ pc' = IF interval_seconds < 0 THEN "fatal" ELSE "tick"
    /\ UNCHANGED <<config, current_index, batch_files, start_idx, pos, success_count,
                   result, dest, attempts, calls, dest_data, waits, attempted_at>>

\* python data_simulator.py without --once.
InitContinuous ==
    /\ NoGenerator
    /\ NoRequest
    /\ source_files \in SUBSET SourceNames
    /\ Cardinality(source_files) <= MaxFiles
    /\ all_files \in GetSortedFiles(source_files)
    /\ num_shops \in 1..MaxShops
    /\ interval_seconds \in Intervals
    /\ mode = "continuous"
    /\ Started

NextContinuous == BeginBatchUncounted \/ CopyFile \/ EndBatch \/ SleepUncounted \/ Interrupt

\* The interpreter keeps executing the single thread: a step of the loop
\* that can be taken is taken. Ctrl+C is under no such obligation.
SpecFair ==
    /\ InitContinuous
    /\ [][NextContinuous]_vars
    /\ WF_vars(BeginBatchUncounted)
    /\ WF_vars(CopyFile)
    /\ WF_vars(EndBatch)
    /\ WF_vars(SleepUncounted)

\* range(24): the hours generate_all writes for each day.
HoursGenerated == 24

\* Mutant: the shops are numbered from 0 (range(self.num_shops)).
ShopRange_FromZero(n) == [first |-> 0, last |-> n - 1]

\* range(1, self.num_shops + 1)
ShopRange(n) == [first |-> 1, last |-> n]

\* One iteration of generate_all's innermost loop: the file of (day, hour,
\* shop_id) is written into the directory, then the three nested for loops
\* move on.
WriteFile ==
    /\ pc = "generate"
    /\ day < days
    /\ source_files' = source_files \cup
          {FileName(ShopText(shop_id), DateText(day), HourText(hour))}
    /\ IF shop_id < ShopRange(num_shops).last
       THEN /\ shop_id' = shop_id + 1
            /\ UNCHANGED <<hour, day>>
       ELSE /\ shop_id' = ShopRange(num_shops).first
            /\ IF hour + 1 < HoursGenerated
               THEN /\ hour' = hour + 1
                    /\ UNCHANGED day
               ELSE /\ hour' = 0
                    /\ day' = day + 1
    /\ UNCHANGED <<all_files, num_shops, interval_seconds, mode, days, current_index, pc,
                   batch_files, start_idx, pos, success_count, result, dest, attempts,
                   calls, dest_data, waits, attempted_at, api>>

\* generate_all has returned; DataSimulator(source_dir = the generator's
\* output_dir, num_shops = the generator's num_shops) is constructed.
Construct ==
    /\ pc = "generate"
    /\ day >= days
    /\ all_files' \in GetSortedFiles(source_files)
    /\ attempted_at' = [p \in 1..Len(all_files') |-> 0]
    /\ current_index' = 0
    /\ pc' = "tick"
    /\ UNCHANGED <<num_shops, interval_seconds, mode, source_files, days, day, hour,
                   shop_id, batch_files, start_idx, pos, success_count, result, dest,
                   attempts, calls, dest_data, waits, api>>

\* One call of _get_next_batch, whoever makes it.
GetNextBatch ==
    /\ pc = "tick"
    /\ LET r == NextRange(current_index, num_shops, Len(all_files))
       IN  /\ start_idx' = r.start
           /\ current_index' = r.end
           /\ batch_files' = FilePaths(Slice(all_files, r.start, r.end))
    /\ UNCHANGED <<config, pc, pos, success_count, result, dest, attempts, calls,
                   dest_data, waits, attempted_at>>

\* python generate_sample_data.py --shops N --days d into an empty directory,
\* the simulator not yet constructed.
InitGenerator ==
    /\ NoRequest
    /\ num_shops \in 1..MaxShops
    /\ days \in 0..MaxDays
    /\ day = 0
    /\ hour = 0
    /\ shop_id = ShopRange(num_shops).first
    /\ source_files = {}
    /\ all_files = <<>>
    /\ attempted_at = <<>>
    /\ interval_seconds \in {i \in Intervals : i >= 0}
    /\ mode = "continuous"
    /\ pc = "generate"
    /\ current_index = 0
    /\ batch_files = <<>>
    /\ start_idx = 0
    /\ pos = 0
    /\ success_count = 0
    /\ result = "none"
    /\ dest = {}
    /\ attempts = <<>>
    /\ calls = 0
    /\ dest_data = [g \in {} |-> <<>>]
    /\ waits = 0

NextGenerator == WriteFile \/ Construct \/ GetNextBatch

SpecGenerator == InitGenerator /\ [][NextGenerator]_vars

\* ------------------------------------------------------- serving endpoint
VALID_TABLES ==
    { "revenue_per_product_2021", "revenue_per_shop_202101",
      "top_k_products", "top_k_products_202101" }

\* Values of the query parameter table that requests carry: the four names
\* and texts that are none of them (empty, another table, other case,
\* trailing blank, a name with SQL behind it, a qualified name).
RequestedTables ==
    VALID_TABLES \cup
    { "", "users", "TOP_K_PRODUCTS", "top_k_products ",
      "top_k_products; DROP TABLE top_k_products", "retail_analytics.top_k_products" }

\* Mutant: any non-empty name passes the check.
ValidTable_NonEmpty(t) == t # ""

\* table in VALID_TABLES: membership of the exact text.
ValidTable(t) == t \in VALID_TABLES

\* Nothing of the replay program or the generator takes part.
ReplayIdle ==
    /\ source_files = {}
    /\ all_files = <<>>
    /\ attempted_at = <<>>
    /\ num_shops = 1
    /\ interval_seconds \in {i \in Intervals : i >= 0}
    /\ mode = "once"
    /\ pc = "done"
    /\ current_index = 0
    /\ batch_files = <<>>
    /\ start_idx = 0
    /\ pos = 0
    /\ success_count = 0
    /\ result = "none"
    /\ dest = {}
    /\ attempts = <<>>
    /\ calls = 0
    /\ dest_data = [g \in {} |-> <<>>]
    /\ waits = 0

replay == <<all_files, num_shops, interval_seconds, mode, source_files, days, day, hour,
            shop_id, current_index, pc, batch_files, start_idx, pos, success_count,
            result, dest, attempts, calls, dest_data, waits, attempted_at>>

\* GET /api/data?table=...: get_data is entered with the parameter.
Request ==
    /\ handler = "idle"
    /\ \E t \in RequestedTables : table' = t
    /\ handler' = "check"
    /\ conn' = "none"
    /\ query' = ""
    /\ response' = 0
    /\ UNCHANGED <<replay, queried>>

\* if table not in VALID_TABLES: raise HTTPException(status_code=400, ...)
CheckTable ==
    /\ handler = "check"
    /\ IF ValidTable(table)
       THEN /\ handler' = "connect"
            /\ UNCHANGED response
       ELSE /\ handler' = "idle"
            /\ response' = 400
    /\ UNCHANGED <<replay, table, conn, query, queried>>

\* conn = get_connection(): the connection is opened, or
\* mysql.connector.connect raises and the request ends with a server error.
Connect ==
    /\ handler = "connect"
    /\ \/ /\ conn' = "open"
          /\ handler' = "query"
          /\ UNCHANGED response
       \/ /\ handler' = "idle"
          /\ response' = 500
          /\ UNCHANGED conn
    /\ UNCHANGED <<replay, table, query, queried>>

\* query = f"SELECT * FROM {table}"
BuildQuery ==
    /\ handler = "query"
    /\ query' = "SELECT * FROM " \o table
    /\ handler' = "read"
    /\ UNCHANGED <<replay, table, conn, response, queried>>

\* df = pd.read_sql(query, conn): the query runs on the table named in it,
\* or raises (the connection is then left open).
ReadSql ==
    /\ handler = "read"
    /\ queried' = queried \cup {table}
    /\ \/ /\ handler' = "close"
          /\ UNCHANGED response
       \/ /\ handler' = "idle"
          /\ response' = 500
    /\ UNCHANGED <<replay, table, conn, query>>

\* conn.close()
Close ==
    /\ handler = "close"
    /\ conn' = "closed"
    /\ handler' = "return"
    /\ UNCHANGED <<replay, table, query, response, queried>>

\* return df.to_dict(orient="records")
Return ==
    /\ handler = "return"
    /\ response' = 200
    /\ handler' = "idle"
    /\ UNCHANGED <<replay, table, conn, query, queried>>

InitApi == NoGenerator /\ NoRequest /\ ReplayIdle

NextApi == Request \/ CheckTable \/ Connect \/ BuildQuery \/ ReadSql \/ Close \/ Return

SpecApi == InitApi /\ [][NextApi]_vars

\* ------------------------------------------------------------------ claims

\* C1: for M >= N > 0, starting from cursor 0, the k-th call of
\* _get_next_batch (k = calls - 1) returns exactly the corpus slice
\* [(k mod T)*N, (k mod T)*N + N) with T = floor(M/N); consecutive batches
\* are adjacent in corpus order or the second one is the slice [0, N).
C1_KthSlice ==
    (M >= N /\ calls > 0) =>
        /\ start_idx = ((calls - 1) % Ticks) * N
        /\ BatchIsSlice(((calls - 1) % Ticks) * N)
C1_Consecutive ==
    (M >= N /\ calls > 0 /\ calls' = calls + 1) =>
        (start_idx' = start_idx + N \/ start_idx' = 0)
C1_CyclicReplay == [](C1_KthSlice) /\ [][C1_Consecutive]_vars
\* After exactly T >= 2 calls, one more call has returned the first slice.
C1_Witness ==
    /\ M >= N /\ Ticks >= 2 /\ calls = Ticks + 1
    /\ start_idx = 0 /\ BatchIsSlice(0)

\* C2: for M >= N > 0, every batch returned by _get_next_batch holds
\* exactly N artifacts, never fewer.
C2_FullBatch == (M >= N /\ calls > 0) => Len(batch_files) = N
\* A batch returned after the wrap of a corpus with a tail (M mod N # 0).
C2_Witness == M >= N /\ M % N # 0 /\ calls > Ticks /\ Len(batch_files) = N

\* C3: for 0 <= M < N every scheduling call fails: no batch is returned
\* (neither empty nor short) and no artifact reaches the dispatcher.
C3_InsufficientCorpusFails ==
    M < N => (batch_files = <<>> /\ attempts = <<>> /\ dest = {})

\* C4 (as stated): cancellation never interrupts a batch in progress; when
\* the loop has exited on the interrupt, every artifact of the current batch
\* has been attempted.
C4_ExitOnlyAtTickBoundary == pc = "stopped" => Len(attempts) = Len(batch_files)
\* C4 (amended): the interrupt is honoured wherever it arrives, also in the
\* middle of a batch: the loop exits at once and cleanly, no further artifact
\* of the batch is attempted, and the cursor stays where the scheduler left
\* it (past the interrupted batch).
C4_InterruptStep ==
    (pc # "stopped" /\ pc' = "stopped") =>
        /\ mode = "continuous"
        /\ pc \in {"tick", "copy", "wait"}
        /\ attempts' = attempts
        /\ current_index' = current_index
C4_InterruptExitsAtOnce == [][C4_InterruptStep]_vars
\* The loop has exited with a batch attempted only in part.
C4_Witness ==
    /\ pc = "stopped"
    /\ Len(attempts) > 0
    /\ Len(attempts) < Len(batch_files)

\* C5: all artifacts of one returned batch carry the same timestamp
\* (stated for M >= N, where the batch is a full one).
C5_BatchSharesTimestamp ==
    M >= N =>
        \A i, j \in 1..Len(batch_files) : TsOf(batch_files[i]) = TsOf(batch_files[j])

C6_EmptyTick ==
    (M = 0 /\ calls' = calls + 1) =>
        /\ batch_files' = <<>>
        /\ result' = "failed"
        /\ pc' = IF mode = "continuous" THEN "wait" ELSE "done"
C6_EmptyState ==
    M = 0 =>
        /\ attempts = <<>>
        /\ dest = {}
        /\ pc # "copy"
        /\ (pc = "fatal" => interval_seconds < 0)
C7_EveryArtifactAttempted ==
    /\ Len(attempts) <= Len(batch_files)
    /\ \A i \in 1..Len(attempts) : attempts[i].fp = batch_files[i]
    /\ success_count = Cardinality({i \in 1..Len(attempts) : attempts[i].ok})
    /\ Returned => Len(attempts) = Len(batch_files)
\* copy_batch has returned from a batch whose first transfer failed and
\* whose second one succeeded.
C7_Witness ==
    /\ Returned
    /\ Len(attempts) >= 2
    /\ ~attempts[1].ok
    /\ attempts[2].ok

NextInReplayOrder(s) == IF s + 2 * N <= M THEN s + N ELSE 0
PartialFailure == 0 < success_count /\ success_count < Len(batch_files)

\* C9: in continuous mode a tick in which some but not all transfers fail
\* does not end the run: copy_batch returns into the interval wait, and the
\* following tick takes the next batch in replay order, the cursor having
\* advanced by N as after a successful tick.
C9_ReturnStep ==
    (mode = "continuous" /\ ~Returned /\ Returned' /\ PartialFailure) =>
        /\ pc' = "wait"
        /\ result' = "failed"
        /\ current_index' = start_idx + N
C9_NextTickStep ==
    (mode = "continuous" /\ Returned /\ PartialFailure /\ calls' = calls + 1) =>
        /\ start_idx' = NextInReplayOrder(start_idx)
        /\ batch_files' = FilePaths(Slice(all_files, start_idx', start_idx' + N))
        /\ current_index' = start_idx' + N
C9_PartialFailureContinues == [][C9_ReturnStep /\ C9_NextTickStep]_vars
\* The loop is back at its head after a partly failed tick, a further tick
\* ahead.
C9_Witness ==
    /\ mode = "continuous"
    /\ pc = "tick"
    /\ result = "failed"
    /\ PartialFailure
    /\ calls < MaxCalls

NoneCopied == batch_files # <<>> /\ Len(attempts) = Len(batch_files) /\ success_count = 0

\* C10 (as stated): a tick in which every transfer raises is fatal: the loop
\* terminates, it neither waits nor comes back to a further tick.
C10_AllFailedIsFatal ==
    (mode = "continuous" /\ NoneCopied) => pc \notin {"wait", "tick"}
\* C10 (amended): a tick in which every transfer raises is not fatal: each
\* exception is caught inside copy_batch, which returns False into the
\* interval wait; the loop ends in a re-raised error only through an
\* exception outside the per-file handler (here: the wait itself).
C10_ReturnStep ==
    (mode = "continuous" /\ ~Returned /\ Returned' /\ NoneCopied) =>
        /\ pc' = "wait"
        /\ result' = "failed"
C10_FatalStep ==
    (pc # "fatal" /\ pc' = "fatal") => (pc = "wait" /\ interval_seconds < 0)
C10_AllFailedContinues == [][C10_ReturnStep /\ C10_FatalStep]_vars
\* The loop is back at its head after a tick that copied nothing.
C10_Witness ==
    /\ mode = "continuous"
    /\ pc = "tick"
    /\ NoneCopied
    /\ result = "failed"

\* The file names at the corpus positions floor(M/N)*N .. M-1 (0-based).
TailNames == {all_files[i].fp : i \in (Ticks * N + 1)..M}
\* The file names a sequence of paths holds.
NamesOf(b) == {b[i] : i \in 1..Len(b)}

\* C11: for M >= N with M mod N # 0, the artifacts at the corpus positions
\* floor(M/N)*N .. M-1 are in no batch that _get_next_batch returns: they are
\* never attempted and never reach the destination.
C11_TailNeverDispatched ==
    (M >= N /\ M % N # 0) =>
        /\ TailNames \cap NamesOf(batch_files) = {}
        /\ TailNames \cap dest = {}
        /\ \A p \in (Ticks * N + 1)..M : attempted_at[p] = 0
\* A corpus with a tail, replayed through a whole cycle and the wrap, every
\* transfer of the batch after the wrap done.
C11_Witness ==
    /\ M >= N
    /\ M % N # 0
    /\ calls = Ticks + 1
    /\ Returned
    /\ success_count = N
    /\ TailNames # {}

\* A step that attempts one transfer, and the file it attempts.
TransferStep == Len(attempts') = Len(attempts) + 1
Transferred == attempts'[Len(attempts')].fp

\* C12: dispatching a batch again, the sources unchanged, leaves the
\* destination as the first dispatch left it: every artifact is stored under
\* its own file name with the content of its source, and the transfer of a
\* file that is already there overwrites that entry, adding no name and
\* changing no content.
C12_OwnNameSourceContent ==
    /\ DOMAIN dest_data = dest
    /\ dest \subseteq NamesOf(FilePaths(all_files))
    /\ \A f \in dest : dest_data[f] = SourceData(f)
C12_Redispatch ==
    (TransferStep /\ Transferred \in dest) => (dest' = dest /\ dest_data' = dest_data)
C12_IdempotentOverwrite == [](C12_OwnNameSourceContent) /\ [][C12_Redispatch]_vars
\* The one batch of a corpus of a single tick has gone out a second time in
\* full.
C12_Witness ==
    /\ M >= N
    /\ Ticks = 1
    /\ N >= 2
    /\ calls = 2
    /\ Returned
    /\ success_count = N
    /\ dest = NamesOf(batch_files)

\* C13: in continuous mode dispatch and suspension strictly alternate,
\* beginning with a dispatch: the first batch goes out before any wait, one
\* interval wait lies between two consecutive dispatches, and every loop
\* iteration takes exactly one batch from the scheduler.
C13_Counts ==
    mode = "continuous" =>
        /\ pc = "tick" => waits = calls
        /\ pc \in {"copy", "wait"} => calls = waits + 1
        /\ waits <= calls
        /\ calls <= waits + 1
C13_Steps ==
    mode = "continuous" =>
        /\ calls' = calls + 1 => (waits' = waits /\ waits = calls)
        /\ waits' = waits + 1 => (calls' = calls /\ calls = waits + 1 /\ Returned)
        /\ calls' \in {calls, calls + 1}
        /\ waits' \in {waits, waits + 1}
C13_DispatchWaitAlternate == [](C13_Counts) /\ [][C13_Steps]_vars
\* The third batch of a continuous run is being copied, two waits behind it.
C13_Witness ==
    /\ mode = "continuous"
    /\ calls = 3
    /\ waits = 2
    /\ pc = "copy"
    /\ Len(attempts) >= 1

\* C14: run_once invokes the scheduler once and the dispatcher once, with no
\* suspension: when it has returned, the cursor is one _get_next_batch step
\* from its start and exactly one batch, the first slice, has been handed to
\* the dispatcher and gone through it.
C14_RunOnceSingleShot ==
    mode = "once" =>
        /\ calls <= 1
        /\ waits = 0
        /\ pc = "done" =>
              /\ calls = 1
              /\ Returned
              /\ start_idx = 0
              /\ current_index = N
              /\ batch_files = FilePaths(Slice(all_files, 0, N))
              /\ Len(attempts) = Len(batch_files)
\* run_once has returned after a batch of at least two files.
C14_Witness ==
    /\ mode = "once"
    /\ pc = "done"
    /\ Len(batch_files) >= 2
    /\ current_index = N

\* A name of the template Shop-<id>-<YYYYMMDD>-<HH>.csv: four segments, a
\* numeric id, a valid date and a valid hour.
WellFormed(fn) ==
    /\ Len(fn) = 8
    /\ fn[1] = "Shop"
    /\ fn[2] = "-" /\ fn[4] = "-" /\ fn[6] = "-"
    /\ fn[8] = ".csv"
    /\ fn[3] \in IntTexts
    /\ DayOf(fn[5]) >= 0
    /\ HourOf(fn[7]) >= 0
CorpusNames == NamesOf(FilePaths(all_files))

\* C15: the corpus holds exactly the well-formed names of the source
\* directory: a name with fewer or more than four segments, a non-numeric
\* id or an invalid date or hour is not in it, and its size is the number of
\* well-formed names.
C15_CorpusIsWellFormedNames ==
    /\ CorpusNames = {f \in source_files : WellFormed(f)}
    /\ M = Cardinality({f \in source_files : WellFormed(f)})

\* The corpus position (1-based) a transfer step attempts.
TransferPos == start_idx + pos + 1

\* C16: a failed transfer is not re-attempted within the same tick and the
\* cursor advances by N whatever fails: an artifact at a position below
\* floor(M/N)*N is attempted again only after the cursor has wrapped,
\* exactly floor(M/N) - 1 other batches having gone out in between.
C16_Reattempt ==
    (M >= N /\ TransferStep) =>
        /\ Transferred = all_files[TransferPos].fp
        /\ TransferPos <= Ticks * N
        /\ attempted_at[TransferPos] # calls
        /\ attempted_at[TransferPos] # 0 => calls = attempted_at[TransferPos] + Ticks
        /\ attempted_at'[TransferPos] = calls
C16_CursorPastBatch ==
    (M >= N /\ calls > 0) => current_index = start_idx + N
C16_RetryOnlyAfterWrap == [](C16_CursorPastBatch) /\ [][C16_Reattempt]_vars
\* The first file of the corpus, whose transfer failed in the first cycle
\* (it is not at the destination), has just failed again in the batch after
\* the wrap, floor(M/N) >= 2 calls later.
C16_Witness ==
    /\ M >= N
    /\ Ticks >= 2
    /\ calls = Ticks + 1
    /\ Len(attempts) >= 1
    /\ attempts[1].fp = all_files[1].fp
    /\ ~attempts[1].ok
    /\ all_files[1].fp \notin dest

\* C17: in every reachable state the cursor is within the corpus,
\* 0 <= current_index <= M, for every M and every N > 0.
C17_CursorWithinCorpus == 0 <= current_index /\ current_index <= M

\* C18: the corpus is the same in every state, and the cursor changes in no
\* step but a scheduler step: the transfers of copy_batch (failed or not),
\* its return, the interval wait, a fatal error and cancellation leave
\* current_index as it is.
SchedulerStep == pc = "tick" /\ calls' = calls + 1
C18_Step ==
    /\ all_files' = all_files
    /\ current_index' # current_index => SchedulerStep
    /\ (TransferStep \/ waits' # waits \/ pc' \in {"stopped", "interrupted", "fatal"})
          => current_index' = current_index
C18_OnlySchedulerMovesCursor == [][C18_Step]_vars
\* A continuous run stopped in its second tick or later, after a wait and a
\* failed transfer, the cursor where the scheduler put it.
C18_Witness ==
    /\ pc = "stopped"
    /\ calls >= 2
    /\ waits >= 1
    /\ \E i \in 1..Len(attempts) : ~attempts[i].ok
    /\ current_index = start_idx + N

\* C20: in every reachable state current_index is a multiple of N; for
\* M >= N it is one of 0, N, 2N, ..., floor(M/N)*N; and it is 0 only before
\* the first _get_next_batch call (at least N after any call).
C20_CursorOnBatchBoundary ==
    /\ current_index % N = 0
    /\ M >= N => current_index \in {k * N : k \in 0..Ticks}
    /\ calls = 0 => current_index = 0
    /\ calls > 0 => current_index >= N
\* After the wrap of a corpus of at least two ticks the cursor is N, not 0.
C20_Witness ==
    /\ M >= N
    /\ Ticks >= 2
    /\ calls = Ticks + 1
    /\ current_index = N

\* The shop id a file name carries.
SidOf(fn) == Entry(fn).sid

\* C19: the corpus is ordered by (timestamp ascending, shop id ascending):
\* for positions i < j, timestamp(i) < timestamp(j), or the timestamps are
\* equal and shop_id(i) <= shop_id(j); entries of one timestamp are
\* contiguous; and every well-formed name of the input is kept, once each,
\* also when two names carry the same (shop id, timestamp).
C19_CorpusSorted ==
    /\ \A i, j \in 1..M : i < j =>
          \/ all_files[i].ts < all_files[j].ts
          \/ /\ all_files[i].ts = all_files[j].ts
             /\ SidOf(all_files[i].fp) <= SidOf(all_files[j].fp)
    /\ \A i, j, k \in 1..M : (i < k /\ k < j /\ all_files[i].ts = all_files[j].ts)
          => all_files[k].ts = all_files[i].ts
    /\ \A i \in 1..M : all_files[i].ts = TsOf(all_files[i].fp)
    /\ \A f \in source_files : WellFormed(f) =>
          Cardinality({i \in 1..M : all_files[i].fp = f}) = 1
\* A corpus of two shops and two hours in which shop 1 occurs twice at the
\* same hour (Shop-1 and Shop-01).
C19_Witness ==
    /\ M = 4
    /\ \E i, j \in 1..M :
          /\ i # j
          /\ all_files[i].ts = all_files[j].ts
          /\ SidOf(all_files[i].fp) = SidOf(all_files[j].fp)
    /\ \E i \in 1..M : SidOf(all_files[i].fp) = 2
    /\ \E i \in 1..M : all_files[i].ts # all_files[1].ts

\* The last loop iteration of copy_batch attempted corpus position p.
JustAttempted(p) == pc = "copy" /\ pos > 0 /\ start_idx + pos = p
\* The continuous loop is inside while True.
InLoop == pc \in {"tick", "copy", "wait"}
\* Neither Ctrl+C nor a fatal error has ended the run.
Undisturbed == pc \notin {"stopped", "fatal"}

InCompleteTick(p) == M >= N /\ p <= Ticks * N
AttemptedIfDue(p) == InCompleteTick(p) => JustAttempted(p)
\* C21: a continuous run with M >= N that is never cancelled and meets no
\* fatal error never leaves its loop, and every corpus position at or below
\* floor(M/N)*N (1-based) is attempted by copy_batch again and again, for
\* ever.
C21_EveryTickReplayedForEver ==
    []Undisturbed =>
        /\ [](M >= N => InLoop)
        /\ \A p \in 1..MaxFiles : []<>AttemptedIfDue(p)
\* In a corpus of two ticks or more, a file that an earlier cycle copied to
\* the destination has just been attempted again, this time failing.
C21_Witness ==
    /\ mode = "continuous"
    /\ M >= N
    /\ Ticks >= 2
    /\ pc = "copy"
    /\ pos > 0
    /\ ~attempts[pos].ok
    /\ attempts[pos].fp \in dest
    /\ attempts[pos].fp = all_files[start_idx + pos].fp

\* The simulator has been constructed on the generator's output.
Indexed == pc = "tick"
\* _get_next_batch has returned at least once.
BatchReturned == Indexed /\ current_index > 0
\* The batch is shops 1..N, each once, in ascending order, of one timestamp.
OneTickOfAllShops ==
    /\ Len(batch_files) = N
    /\ \A i \in 1..Len(batch_files) : SidOf(batch_files[i]) = i
    /\ \A i, j \in 1..Len(batch_files) : TsOf(batch_files[i]) = TsOf(batch_files[j])
\* A scheduler step that does not wrap returns a batch later than the last.
LaterUntilWrap ==
    (BatchReturned /\ start_idx' # start_idx /\ start_idx' # 0) =>
        \A i \in 1..Len(batch_files), j \in 1..Len(batch_files') :
            TsOf(batch_files[i]) < TsOf(batch_files'[j])

PastCheck == handler \in {"connect", "query", "read", "close", "return"}
C23_State ==
    /\ Cardinality(VALID_TABLES) = 4
    /\ queried \subseteq VALID_TABLES
    /\ (PastCheck \/ conn # "none" \/ query # "") => table \in VALID_TABLES
    /\ query # "" => query = "SELECT * FROM " \o table
    /\ response = 400 =>
          /\ table \notin VALID_TABLES
          /\ handler = "idle"
          /\ conn = "none"
          /\ query = ""
C23_Step ==
    (handler = "check" /\ table \notin VALID_TABLES) =>
        /\ response' = 400
        /\ handler' = "idle"
        /\ conn' = "none"
        /\ query' = ""
        /\ queried' = queried

\* C23: get_data opens a connection and runs a query only for a table name
\* in VALID_TABLES; for any other name the request ends with status 400
\* before a connection is opened or a query is built, so every table name
\* queried is one of the four whitelisted names.
C23_OnlyWhitelistedQueried == [](C23_State) /\ [][C23_Step]_vars
\* After all four tables have been queried, a request for a name with SQL
\* behind it has been answered with 400.
C23_Witness ==
    /\ queried = VALID_TABLES
    /\ table = "top_k_products; DROP TABLE top_k_products"
    /\ response = 400
    /\ handler = "idle"

====
